---- MODULE Spec2Model ----
(***************************************************************************)
(* The Interrogator agent of the legal assistant backend: the bounded-turn *)
(* question/answer loop that LangGraph runs over InterrogationState.       *)
(*                                                                         *)
(* One interrogation session is modelled.  pc is the graph node that runs  *)
(* next; every action is one node of the graph together with the edge      *)
(* (plain or conditional) that leaves it.  Texts are short sequences of    *)
(* word tokens so that the router's substring test is a real test.  Model  *)
(* outputs (LLM texts, the sentence-embedding score, the Researcher's      *)
(* outcome) are inputs drawn from small sets.                              *)
(***************************************************************************)
EXTENDS Naturals, Integers, Sequences, FiniteSets, TLC

VARIABLES
    pc,             \* graph node to run next: START, a node name, END or error
    graph,          \* Interrogator.graph is a compiled graph (TRUE) or None
    max_num_turns,  \* state["max_num_turns"]
    messages,       \* state["messages"]
    report,         \* state["report"]: <<>> when the key is absent, <<text>> otherwise
    interrogation,  \* state["interrogation"], same encoding
    conclusion,     \* state["conclusion"], same encoding
    questionCall,   \* prompt of the latest question-generator call
    reportCall,     \* prompt of the latest report-writer call
    lastSearch,     \* outcome of the latest researcher.search call
    similarity,     \* cosine score (x100) of the latest question against the phrase
    answerSteps,    \* number of get_answer steps completed in this session
    result,         \* value returned by Interrogator.interrogation
    hyb,            \* one HybridRetriever.retrieve call: position, inputs, lists, result
    rer,            \* one run of the rerank node: configuration, candidates, output
    thr,            \* Researcher.search calls on the shared researcher: clock, saver, callers
    lex,            \* one BM25RetrieverWrapper: construction, query, result
    ctor,           \* construction of the retrievers and the Researcher from the settings
    vdb,            \* the vector store under index maintenance while a query runs
    api,            \* the conversation table behind the HTTP API and the last request
    task,           \* one submitted interrogation Celery task: attempts, retries, response
    ext             \* one Researcher.search call: extraction attempts, nodes run, what the interrogator records

sessionVars == <<pc, graph, max_num_turns, messages, report, interrogation, conclusion,
                 questionCall, reportCall, lastSearch, similarity, answerSteps, result>>

\* state of the Researcher side, untouched by the Interrogator's graph nodes
retrievalVars == <<hyb, rer, thr, lex, ctor, vdb, api, task, ext>>

\* what the steps of one component leave alone
exceptHyb == <<sessionVars, rer, thr, lex, ctor, vdb, api, task, ext>>
exceptRer == <<sessionVars, hyb, thr, lex, ctor, vdb, api, task, ext>>
exceptThr == <<sessionVars, hyb, rer, lex, ctor, vdb, api, task, ext>>
exceptLex == <<sessionVars, hyb, rer, thr, ctor, vdb, api, task, ext>>
exceptCtor == <<sessionVars, hyb, rer, thr, lex, vdb, api, task, ext>>
exceptVdb == <<sessionVars, hyb, rer, thr, lex, ctor, api, task, ext>>
exceptApi == <<sessionVars, hyb, rer, thr, lex, ctor, vdb, task, ext>>
exceptTask == <<sessionVars, hyb, rer, thr, lex, ctor, vdb, api, ext>>
exceptExt == <<sessionVars, hyb, rer, thr, lex, ctor, vdb, api, task>>

vars == <<sessionVars, retrievalVars>>

----------------------------------------------------------------------------
(* Bounds *)

MaxTurns == 3

TurnBudgets == 0..MaxTurns

\* largest corpus (number of stored chunks)
MaxDocs == 3

----------------------------------------------------------------------------
(* Texts *)

\* 'Thank you, I am now in a position to answer the question with confidence.'
TerminationPhrase == <<"thank_you", "now_confident">>

\* Texts the question generator can return.
QuestionTexts ==
    { <<"q">>,
      <<"thank_you", "now_confident">>,
      <<"q", "thank_you", "now_confident">>,
      <<"thank_you", "q", "now_confident">> }

\* Texts the Researcher's response generator can return.
AnswerTexts == { <<"a">> }

\* Texts the report writer can return (Python strings; "" is falsy).
ReportTexts == { "", "report" }

\* Texts the conclusion writer can return.
ConclusionTexts == { "conclusion" }

\* "No response generated"
NoResponse == <<"no_response_generated">>

\* threshold: float = 0.9, in hundredths
Threshold == 90

\* Cosine scores (x100) the sentence-embedding model can give a question.
SimScores(text) == IF text = TerminationPhrase THEN {100} ELSE {89, 90}

----------------------------------------------------------------------------
(* Python helpers *)

\* needle in haystack, for str
Contains(haystack, needle) ==
    \E i \in 1..(Len(haystack) + 1) :
        /\ i + Len(needle) - 1 <= Len(haystack)
        /\ SubSeq(haystack, i, i + Len(needle) - 1) = needle

\* a dict is a set of <<key, value>> pairs
EmptyDict == {}

HasKey(d, k) == \E p \in d : p[1] = k

\* d.get(k, default)
DictGet(d, k, default) ==
    IF HasKey(d, k) THEN (CHOOSE p \in d : p[1] = k)[2] ELSE default

\* a state key that may be absent: <<>> or <<value>>
Absent == <<>>

InState(channel) == Len(channel) = 1

\* "report" in state and state["report"]
ReportExists(rep) == InState(rep) /\ rep[1] # ""

AIMessage(content) == [type |-> "ai", content |-> content]

HumanMessage(content) == [type |-> "human", content |-> content]

\* variant: the update is appended twice
add_messages_twice(left, right) == left \o right \o right

\* variant: the update overwrites the latest message
add_messages_overwrite(left, right) ==
    IF Len(left) = 0 THEN right ELSE SubSeq(left, 1, Len(left) - 1) \o right

\* the messages reducer of MessagesState: new messages (fresh ids) are appended
add_messages(left, right) == left \o right

\* variant: the whole transcript is passed
WholeTranscript(msgs) == msgs

\* messages[-2:]
LastTwo(msgs) ==
    IF Len(msgs) <= 2 THEN msgs ELSE SubSeq(msgs, Len(msgs) - 1, Len(msgs))

\* format_conversation: one <<role, content>> block per message
format_conversation(msgs, ai_replacement, human_replacement) ==
    [i \in 1..Len(msgs) |->
        <<IF msgs[i].type = "ai" THEN ai_replacement ELSE human_replacement,
          msgs[i].content>>]

\* similarity_check(text1, text2, threshold=0.9) given the model's score
similarity_check(score, threshold) == score >= threshold

----------------------------------------------------------------------------
(* Nodes and edges *)

\* int(max_num_turns - len(messages) / 2): truncation toward zero
remaining_questions(n, msgs) ==
    IF 2 * n >= Len(msgs)
    THEN (2 * n - Len(msgs)) \div 2
    ELSE 0 - ((Len(msgs) - 2 * n) \div 2)

\* variant: the final-question prompt is chosen one question early
PromptModeEarlyFinal(rep, n, msgs) ==
    IF ReportExists(rep)
    THEN IF remaining_questions(n, msgs) <= 1 THEN "final" ELSE "followup"
    ELSE "first"

\* prompt selected by generate_question
PromptMode(rep, n, msgs) ==
    IF ReportExists(rep)
    THEN IF remaining_questions(n, msgs) = 0 THEN "final" ELSE "followup"
    ELSE "first"

\* variant: the budget test is strict
route_strict_budget(msgs, n, score) ==
    IF (Len(msgs) \div 2) > n
    THEN "save_interrogation"
    ELSE IF \/ Contains(msgs[Len(msgs)].content, TerminationPhrase)
            \/ similarity_check(score, Threshold)
         THEN "save_interrogation"
         ELSE "get_answer"

\* variant: the substring test alone (router.py lines 33-34, commented out)
route_substring_only(msgs, n, score) ==
    IF (Len(msgs) \div 2) >= n
    THEN "save_interrogation"
    ELSE IF Contains(msgs[Len(msgs)].content, TerminationPhrase)
         THEN "save_interrogation"
         ELSE "get_answer"

\* route_interrogation
route_interrogation(msgs, n, score) ==
    IF (Len(msgs) \div 2) >= n
    THEN "save_interrogation"
    ELSE IF \/ Contains(msgs[Len(msgs)].content, TerminationPhrase)
            \/ similarity_check(score, Threshold)
         THEN "save_interrogation"
         ELSE "get_answer"

\* variant: write_report is wired back to save_interrogation
EdgeLoop(node) ==
    CASE node = "START"              -> "generate_question"
      [] node = "get_answer"         -> "refine_answer"
      [] node = "refine_answer"      -> "generate_question"
      [] node = "save_interrogation" -> "write_report"
      [] node = "write_report"       -> "save_interrogation"

\* variant: save_interrogation is wired to END
EdgeSkipReport(node) ==
    CASE node = "START"              -> "generate_question"
      [] node = "get_answer"         -> "refine_answer"
      [] node = "refine_answer"      -> "generate_question"
      [] node = "save_interrogation" -> "END"
      [] node = "write_report"       -> "END"

\* plain edges of GraphBuilder.build
Edge(node) ==
    CASE node = "START"              -> "generate_question"
      [] node = "get_answer"         -> "refine_answer"
      [] node = "refine_answer"      -> "generate_question"
      [] node = "save_interrogation" -> "write_report"
      [] node = "write_report"       -> "END"

\* Researcher.search: any exception is caught and {} is returned
Researcher_search(raised, text) ==
    IF raised THEN EmptyDict ELSE { <<"response", text>> }

\* variant: the default of .get is dropped
AnswerMessageNoDefault(searchResult) ==
    HumanMessage(DictGet(searchResult, "response", <<>>))

\* the message get_answer writes
AnswerMessage(searchResult) ==
    HumanMessage(DictGet(searchResult, "response", NoResponse))

\* variant: only state["report"] is read with .get
WriteReportReadsInterrogation(interr, rep) == InState(interr)

\* variant: the keys are read with .get
WriteReportReadsLenient(interr, rep) == TRUE

\* write_report reads state["interrogation"] and state["report"]: KeyError if absent
WriteReportReads(interr, rep) == InState(interr) /\ InState(rep)

\* keys of the graph state returned by graph.invoke
InputKeys == {"userQuery", "userContext", "userInstructions", "max_num_turns", "config"}

StateKeys(msgs, rep, interr, concl) ==
    InputKeys
      \cup (IF Len(msgs) > 0 THEN {"messages"} ELSE {})
      \cup (IF InState(rep) THEN {"report"} ELSE {})
      \cup (IF InState(interr) THEN {"interrogation"} ELSE {})
      \cup (IF InState(concl) THEN {"conclusion"} ELSE {})

NotReturned == [returned |-> FALSE, status |-> "", keys |-> {}]

\* the except branch of Interrogator.interrogation
ErrorResult == [returned |-> TRUE, status |-> "error",
                keys |-> {"status", "error", "userQuery"}]

GraphResult(msgs, rep, interr, concl) ==
    [returned |-> TRUE, status |-> "", keys |-> StateKeys(msgs, rep, interr, concl)]

NoCall == [mode |-> "none", remaining |-> 0, conversation |-> <<>>, existingReport |-> <<>>]

NoSearch == [called |-> FALSE, failed |-> FALSE, result |-> EmptyDict]


----------------------------------------------------------------------------
(* Retrieval: documents, BM25 wrapper, vector retriever, rank fusion *)

\* "--- ORIGINAL SPAN OF THE DOCUMENT ---"
OriginalSpanMarker == "original_span"

\* page_content of the stored chunks
Contents == { <<"A", OriginalSpanMarker>>, <<"B", OriginalSpanMarker>>, <<"C">> }

\* a corpus snapshot: the chunks in storage order; equal texts may repeat
Corpora == UNION { [1..n -> Contents] : n \in 0..MaxDocs }

\* Document(page_content, metadata); id is the object's position in storage
Document(i, text, tag, score) ==
    [id |-> i, page_content |-> text, retriever |-> tag, score |-> score]

\* settings read from config: retrievers.hybrid, retrievers.bm25 and
\* retrievers.vectordb (weights in hundredths)
HybridConfigs ==
    { [bm25_weight |-> 50, vector_weight |-> 50, top_k |-> 2,
       bm25_top_k |-> 5, vector_top_k |-> 5],
      [bm25_weight |-> 62, vector_weight |-> 61, top_k |-> 5,
       bm25_top_k |-> 2, vector_top_k |-> 2] }

\* retrievers.bm25.similarity_threshold (default 0), in hundredths
Bm25Threshold == 0

\* raw BM25Okapi scores of a text for the query
LexScores == {0, 1}

\* sigmoid(x) = 1 / (1 + exp(-x)), in hundredths
sigmoid(x) == CASE x = 0 -> 50 [] x = 1 -> 73 [] OTHER -> 88

\* injective sequences over S
InjectiveSeqs(S) ==
    { f \in UNION { [1..m -> S] : m \in 0..Cardinality(S) } :
        \A i, j \in DOMAIN f : i # j => f[i] # f[j] }

\* variant: the order is left as it is
NoReverse(seq) == seq

\* seq[::-1]
Reverse(seq) == [i \in 1..Len(seq) |-> seq[Len(seq) + 1 - i]]

\* variant: the slice is taken from the front
TakeFirstK(seq, k) == IF k >= Len(seq) THEN seq ELSE SubSeq(seq, 1, k)

\* seq[-k:] for k >= 1
LastK(seq, k) == IF k >= Len(seq) THEN seq ELSE SubSeq(seq, Len(seq) - k + 1, Len(seq))

\* seq[:k]
FirstK(seq, k) == IF k >= Len(seq) THEN seq ELSE SubSeq(seq, 1, k)

\* np.argsort(scores): an ascending order; the order among equal scores is
\* not specified by the default sort kind
Argsorts(scores) ==
    { p \in InjectiveSeqs(DOMAIN scores) :
        /\ Len(p) = Len(scores)
        /\ \A i, j \in 1..Len(p) : i < j => scores[p[i]] <= scores[p[j]] }

\* VectorDBRetriever.fetch_all_documents: every stored chunk, [] on any error
fetch_all_documents(corpus, failed) ==
    IF failed THEN <<>>
    ELSE [i \in 1..Len(corpus) |-> Document(i, corpus[i], "", 0)]

\* BM25RetrieverWrapper.__init__: BM25Okapi divides by the corpus size
BM25InitRaises(documents) == Len(documents) = 0

\* BM25RetrieverWrapper.retrieve_with_scores, given the scores and the argsort
retrieve_with_scores(documents, scores, order, k, threshold) ==
    LET top_indices == Reverse(LastK(order, k))
        kept == SelectSeq(top_indices, LAMBDA idx : scores[idx] > threshold)
    IN  [i \in 1..Len(kept) |-> <<documents[kept[i]], scores[kept[i]]>>]

\* BM25RetrieverWrapper.retrieve: tag and score go into the metadata
bm25_retrieve(documents, scores, order, k, threshold) ==
    LET with_scores == retrieve_with_scores(documents, scores, order, k, threshold)
    IN  [i \in 1..Len(with_scores) |->
            Document(with_scores[i][1].id, with_scores[i][1].page_content,
                     "bm25_retriever", with_scores[i][2])]

\* what similarity_search_with_relevance_scores(query, k) can leave after the
\* threshold test: at most k distinct stored chunks, best first
VectorAnswers(corpus, k) ==
    { answer \in InjectiveSeqs(1..Len(corpus)) : Len(answer) <= k }

\* VectorDBRetriever.retrieve: [] on any error
vectordb_retrieve(corpus, answer, failed) ==
    IF failed THEN <<>>
    ELSE [i \in 1..Len(answer) |->
            Document(answer[i], corpus[answer[i]], "vectordb_retriever", 0)]

\* EnsembleRetriever's constant c of reciprocal rank fusion
RRF_C == 60

RECURSIVE Product(_, _)
Product(lo, hi) == IF lo > hi THEN 1 ELSE lo * Product(lo + 1, hi)

\* common denominator of 1 / (rank + c) for the ranks a list can hold
Scale == Product(RRF_C + 1, RRF_C + MaxDocs)

\* variant: rank contributions fall linearly with the rank
RankWeightLinear(rank) == MaxDocs + 1 - rank

\* 1 / (rank + c), times Scale
RankWeight(rank) == Scale \div (RRF_C + rank)

RECURSIVE SumThird(_)
SumThird(T) ==
    IF T = {} THEN 0
    ELSE LET t == CHOOSE x \in T : TRUE IN t[3] + SumThird(T \ {t})

\* rrf_score[doc.page_content]: weight / (rank + c) summed over every
\* position of every list that holds the text
rrf_score(text, doc_lists, weights) ==
    SumThird({ <<l, r, weights[l] * RankWeight(r)>> :
                 <<l, r>> \in { x \in (1..Len(doc_lists)) \X (1..MaxDocs) :
                                  /\ x[2] <= Len(doc_lists[x[1]])
                                  /\ doc_lists[x[1]][x[2]].page_content = text } })

RECURSIVE Pick(_, _, _)
Pick(seq, I, i) ==
    IF i > Len(seq) THEN <<>>
    ELSE (IF i \in I THEN <<seq[i]>> ELSE <<>>) \o Pick(seq, I, i + 1)

\* variant: nothing is removed
keep_all(docs) == docs

\* unique_by_key(docs, page_content): the first document of every text
unique_by_key(docs) ==
    Pick(docs, { i \in 1..Len(docs) :
                   \A j \in 1..(i - 1) : docs[j].page_content # docs[i].page_content }, 1)

\* variant: among equal keys the later element goes first
SortPositionUnstable(keys, i) ==
    1 + Cardinality({ j \in 1..Len(keys) :
                        keys[j] > keys[i] \/ (keys[j] = keys[i] /\ j > i) })

\* place of element i after sorted(..., reverse=True): the sort is stable
SortPosition(keys, i) ==
    1 + Cardinality({ j \in 1..Len(keys) :
                        keys[j] > keys[i] \/ (keys[j] = keys[i] /\ j < i) })

\* sorted(seq, key=keys, reverse=True)
SortedDesc(seq, keys) ==
    [k \in 1..Len(seq) |-> seq[CHOOSE i \in 1..Len(seq) : SortPosition(keys, i) = k]]

\* EnsembleRetriever.weighted_reciprocal_rank
weighted_reciprocal_rank(doc_lists, weights) ==
    LET all_docs == unique_by_key(doc_lists[1] \o doc_lists[2])
        keys == [i \in 1..Len(all_docs) |->
                    rrf_score(all_docs[i].page_content, doc_lists, weights)]
    IN  SortedDesc(all_docs, keys)

\* variant: the fused list is tagged but not cut
hybrid_documents_uncut(all_documents, top_k) ==
    [i \in 1..Len(all_documents) |->
        [all_documents[i] EXCEPT !.retriever = "hybrid_retriever"]]

\* the tail of HybridRetriever.retrieve: cut to top_k and tag
hybrid_documents(all_documents, top_k) ==
    LET documents == IF Len(all_documents) > top_k
                     THEN FirstK(all_documents, top_k) ELSE all_documents
    IN  [i \in 1..Len(documents) |->
            [documents[i] EXCEPT !.retriever = "hybrid_retriever"]]

HybridIdle ==
    [pc |-> "idle", corpus |-> <<>>, config |-> CHOOSE c \in HybridConfigs : TRUE,
     vectorAnswer |-> <<>>, documents |-> <<>>, lexical |-> <<>>, semantic |-> <<>>,
     fused |-> <<>>, result |-> <<>>,
     fetchFailed |-> FALSE, lexicalRaised |-> FALSE, semanticFailed |-> FALSE]

----------------------------------------------------------------------------
(* The rerank node *)

\* reranking.top_k, reranking.similarity_threshold (None when not configured,
\* scores in hundredths) and reranking.use_reranker
RerankConfigs ==
    [top_k : {2, 5}, similarity_threshold : {<<>>, <<0>>, <<50>>},
     use_reranker : BOOLEAN]

\* scores of the relevance model: every reranker type ends in a sigmoid
\* (default_activation_function=Sigmoid, normalize=True), in hundredths
RerankScores == {0, 40, 60}

\* variant: every document counts as an original span
HasMarkerAlways(doc) == TRUE

\* "--- ORIGINAL SPAN OF THE DOCUMENT ---" in doc.page_content
HasMarker(doc) == Contains(doc.page_content, <<OriginalSpanMarker>>)

\* variant: no score is ever below the threshold
BelowThresholdNever(similarity_threshold, score) == FALSE

\* similarity_threshold and score < similarity_threshold
BelowThreshold(similarity_threshold, score) ==
    /\ Len(similarity_threshold) = 1
    /\ similarity_threshold[1] # 0
    /\ score < similarity_threshold[1]

\* an entry of responseContext: the document and metadata["reranker_score"]
Reranked(doc, score) == [doc |-> doc, reranker_score |-> score]

\* the documents that reach the relevance model
rerank_candidates(retrieved_documents) ==
    SelectSeq(retrieved_documents, LAMBDA doc : HasMarker(doc))

\* rerank once the scores are back: sort, threshold, cut
rerank_scored(candidates, scores, config) ==
    LET reranked_docs ==
            SortedDesc([i \in 1..Len(candidates) |-> <<candidates[i], scores[i]>>], scores)
        final_docs ==
            SelectSeq(reranked_docs,
                      LAMBDA pair : ~BelowThreshold(config.similarity_threshold, pair[2]))
    IN  FirstK([i \in 1..Len(final_docs) |->
                   Reranked(final_docs[i][1], <<final_docs[i][2]>>)], config.top_k)

\* variant: the original-span filter also runs when the reranker is off
rerank_disabled_filtered(retrieved_documents, config) ==
    FirstK([i \in 1..Len(rerank_candidates(retrieved_documents)) |->
               Reranked(rerank_candidates(retrieved_documents)[i], <<>>)], config.top_k)

\* rerank with the reranker switched off: the first top_k documents as they are
rerank_disabled(retrieved_documents, config) ==
    FirstK([i \in 1..Len(retrieved_documents) |->
               Reranked(retrieved_documents[i], <<>>)], config.top_k)

RerankIdle ==
    [pc |-> "idle", config |-> CHOOSE c \in RerankConfigs : TRUE,
     retrievedDocuments |-> <<>>, scores |-> <<>>, modelCalled |-> FALSE,
     scoringFailed |-> FALSE, responseContext |-> <<>>]

----------------------------------------------------------------------------
(* Researcher.search on the module-level researcher and its MemorySaver *)

\* latest value of int(time.time() * 1000) the model lets the clock reach
MaxClock == 1

\* the sessions whose get_answer nodes call researcher.search
Callers == {1, 2}

\* channels of RetrievalState that no node or input has written; what a
\* session writes is marked with the session
NoChannels ==
    [query |-> 0, messages |-> <<>>, retrievedDocuments |-> <<>>,
     responseContext |-> <<>>, response |-> 0]

\* no checkpoint stored for a thread id
NoCheckpoint == <<>>

\* reranking.top_k when not configured
DefaultTopK == 5

\* the reducer of retrievedDocuments
operator_add(left, right) == left \o right

\* graph.invoke starts from the thread's latest checkpoint, then the input
\* overwrites its own keys
load_checkpoint(saver, thread_id, caller) ==
    LET loaded == IF saver[thread_id] = NoCheckpoint THEN NoChannels
                  ELSE saver[thread_id][1]
    IN  [loaded EXCEPT !.query = caller]

\* MemorySaver.put: the thread's latest checkpoint
put_checkpoint(saver, thread_id, channels) ==
    [saver EXCEPT ![thread_id] = <<channels>>]

\* extract_query returns the whole state with messages replaced by the model's
\* tool-call message, so every reducer channel is fed its own value again
extract_query_update(channels, caller) ==
    [channels EXCEPT !.messages = add_messages(channels.messages, <<caller>>),
                     !.retrievedDocuments =
                         operator_add(channels.retrievedDocuments,
                                      channels.retrievedDocuments)]

\* variant: the tools node is wired straight to generate_response
ResearcherEdgeNoRerank(node) ==
    CASE node = "extract_query" -> "tools"
      [] node = "tools" -> "generate_response"
      [] node = "rerank" -> "generate_response"
      [] node = "generate_response" -> "done"

\* edges of the Researcher graph; extract_query raises without a tool call, so
\* tools_condition only ever answers "tools"
ResearcherEdge(node) ==
    CASE node = "extract_query" -> "tools"
      [] node = "tools" -> "rerank"
      [] node = "rerank" -> "generate_response"
      [] node = "generate_response" -> "done"

\* what generate_response returns: the "not any relevant spans" message, the
\* filtered spans, an answer written by the model, or nothing (no return
\* statement is reached)
response_kind(documents, return_chunks, llm_filtering) ==
    IF return_chunks
    THEN IF Len(documents) = 0 THEN "sentinel"
         ELSE IF llm_filtering THEN "spans" ELSE "none"
    ELSE "answer"

\* a caller of search: position, thread, channel values of its run, what the
\* rerank node returned and what generate_response read in that run
NoCaller == [pc |-> "start", thread_id |-> 0, channels |-> NoChannels,
             returned |-> FALSE, result |-> NoChannels,
             return_chunks |-> FALSE, rerankOutput |-> <<>>,
             synthesisInput |-> <<>>, responseKind |-> "", synthesizerCalled |-> FALSE]

\* no search is in flight
ThreadIdle ==
    [pc |-> "idle", clock |-> 0, saver |-> [t \in 0..MaxClock |-> NoCheckpoint],
     use_llm_filtering |-> FALSE, toolReturned |-> {},
     callers |-> [c \in Callers |-> NoCaller]]

----------------------------------------------------------------------------
(* The lexical ranker on its own *)

\* retrievers.bm25: top_k, similarity_threshold (hundredths), use_sigmoid
Bm25Configs == [top_k : {1, 2, 5}, similarity_threshold : {0, 50, 73},
                use_sigmoid : BOOLEAN]

\* the scores retrieve_with_scores ranks by, in hundredths
bm25_scores(documents, raw, use_sigmoid) ==
    [i \in 1..Len(documents) |->
        IF use_sigmoid THEN sigmoid(raw[documents[i].page_content])
        ELSE 100 * raw[documents[i].page_content]]

LexicalIdle ==
    [pc |-> "idle", corpus |-> <<>>, config |-> CHOOSE c \in Bm25Configs : TRUE,
     documents |-> <<>>, scores |-> <<>>, result |-> <<>>, raised |-> FALSE]

----------------------------------------------------------------------------
(* Construction of the retrieval engine from its settings *)

\* retrievers.vectordb.use_vector_store, lower-cased ("" when not set)
VectorStoreTypes == {"", "pinecone", "chroma", "faiss"}

\* the backend settings: which of the required values are present
BackendSettings ==
    [use_vector_store : VectorStoreTypes, embeddings_api_key : BOOLEAN,
     pinecone_api_key : BOOLEAN, index_name : BOOLEAN, api_host : BOOLEAN]

\* the ValueError VectorDBRetriever.__init__ runs into, "" when it runs through
vectordb_init_error(settings) ==
    IF settings.use_vector_store = "" THEN "vector_store is required"
    ELSE IF ~settings.embeddings_api_key THEN "EMBEDDINGS_API_KEY is required"
    ELSE IF settings.use_vector_store = "pinecone"
    THEN IF ~settings.pinecone_api_key \/ ~settings.index_name \/ ~settings.api_host
         THEN "Missing Pinecone credentials" ELSE ""
    ELSE IF settings.use_vector_store = "chroma"
    THEN IF ~settings.index_name THEN "Missing Chroma index name" ELSE ""
    ELSE "Unsupported vector store type"

ConstructIdle ==
    [pc |-> "idle", settings |-> CHOOSE c \in BackendSettings : TRUE,
     error |-> "", has_vectorstore |-> FALSE, vectordb |-> FALSE, hybrid |-> FALSE,
     researcher |-> FALSE, tools |-> {}, raised |-> FALSE,
     queried |-> FALSE, queryResult |-> <<>>]

----------------------------------------------------------------------------
(* The vector store shared by the indexer and the hybrid retriever *)

\* the document lists VectorDBIndexer.index is called with
IndexBatches == { docs \in Corpora : Len(docs) <= 1 }

IndexIdle ==
    [store |-> <<>>, indexer |-> "idle", batch |-> <<>>, query |-> "idle",
     lexicalCorpus |-> <<>>, semanticCorpus |-> <<>>, lexicalRaised |-> FALSE]

----------------------------------------------------------------------------
(* The conversation endpoints of the HTTP API *)

Emails == {"a@example.com", "b@example.com"}

ThreadIds == {"t1", "t2"}

\* what the Authorization header carries: no valid token, or a verified token
\* whose payload has an email or none
Tokens ==
    {[valid |-> FALSE, email |-> ""]} \cup
    {[valid |-> TRUE, email |-> e] : e \in Emails \cup {""}}

AnonymousEmail == "anonymous@development.local"

\* no row for the thread_id in the conversations table
NoConversation == ""

\* auth.get_current_user: None when authentication is disabled, else the user
\* of the verified token; a missing or invalid token raises HTTPException 401
get_current_user(auth, token) ==
    IF ~auth THEN [raised |-> FALSE, user |-> <<>>]
    ELSE IF ~token.valid THEN [raised |-> TRUE, user |-> <<>>]
    ELSE [raised |-> FALSE, user |-> <<token.email>>]

\* the head of every conversation handler: the caller's email, <<>> for none
caller_email(auth, user) ==
    IF user # <<>> /\ user[1] # "" THEN <<user[1]>>
    ELSE IF ~auth THEN <<AnonymousEmail>>
    ELSE <<>>

\* mutant of access_denied: the ownership check is skipped
access_never_denied(auth, owner, user_email) == FALSE

\* "if Config.ENABLE_AUTHENTICATION and conversation.user_email != user_email"
access_denied(auth, owner, user_email) == auth /\ owner # user_email

\* the checks that get_conversation, get_conversation_messages and
\* delete_conversation all make before they act; 0 lets the request through
conversation_guard(auth, token, table, thread_id) ==
    LET current == get_current_user(auth, token)
        user_email == caller_email(auth, current.user)
    IN  IF current.raised THEN 401
        ELSE IF user_email = <<>> THEN 401
        ELSE IF table[thread_id] = NoConversation THEN 404
        ELSE IF access_denied(auth, table[thread_id], user_email[1]) THEN 403
        ELSE 0

NoRequest ==
    [op |-> "none", token |-> [valid |-> FALSE, email |-> ""], thread_id |-> "",
     status |-> 0, data |-> "", before |-> [t \in ThreadIds |-> NoConversation]]

ApiIdle ==
    [auth |-> TRUE, conversations |-> [t \in ThreadIds |-> NoConversation],
     last |-> NoRequest]

----------------------------------------------------------------------------
(* The interrogation Celery task *)

\* @celery_app.task(..., max_retries=3)
max_retries == 3

\* mutant of may_retry: one more retry is allowed
may_retry_inclusive(retries) == retries <= max_retries

\* "if self.request.retries < self.max_retries"
may_retry(retries) == retries < max_retries

\* results["report"] and results["conclusion"] raise KeyError on a missing key
task_reads(keys) == {"report", "conclusion"} \subseteq keys

\* create_task_response: status and the keys of data
create_task_response(status, data) == [status |-> status, data |-> data]

NoTaskResponse == create_task_response("", {})

TaskIdle ==
    [pc |-> "idle", retries |-> 0, runs |-> 0, raised |-> FALSE,
     response |-> NoTaskResponse]

----------------------------------------------------------------------------
(* Query extraction with its retry loop *)

\* stop=stop_after_attempt(10)
stop_after_attempt == 10

\* queries Researcher.search is called with; "" is falsy
Queries == {"", "query"}

\* what the bound model answers: a message with or without tool calls, or the
\* call fails with an exception that is no ValueError
ModelAnswers == {"tool_call", "no_tool_call", "exception"}

\* mutant of extract_outcome: a response without a tool call is returned too
extract_outcome_lenient(query, answer) ==
    IF answer = "exception" THEN "exception" ELSE "returned"

\* one attempt of extract_query: the ValueError it raises, another exception,
\* or a return
extract_outcome(query, answer) ==
    IF query = "" THEN "no_query"
    ELSE IF answer = "exception" THEN "exception"
    ELSE IF answer = "tool_call" THEN "returned"
    ELSE "no_tool_call"

\* retry=retry_if_exception_type(ValueError)
is_value_error(outcome) == outcome \in {"no_query", "no_tool_call"}

\* tools_condition on the messages channel: tool_calls is the number of tool
\* calls of a message
tools_condition(msgs) ==
    IF msgs[Len(msgs)].tool_calls > 0 THEN "tools" ELSE "generate_response"

\* the order the edges of the Researcher graph give
ResearcherPath == <<"extract_query", "tools", "rerank", "generate_response">>

ExtractIdle ==
    [pc |-> "idle", query |-> "", attempts |-> 0, retried |-> {}, messages |-> <<>>,
     path |-> <<>>, raisedIn |-> "", returned |-> FALSE, result |-> EmptyDict,
     answer |-> <<>>]

----------------------------------------------------------------------------

\* every component but the named one is at rest
AtRest(component) ==
    /\ IF component = "hyb" THEN TRUE ELSE hyb = HybridIdle
    /\ IF component = "rer" THEN TRUE ELSE rer = RerankIdle
    /\ IF component = "thr" THEN TRUE ELSE thr = ThreadIdle
    /\ IF component = "lex" THEN TRUE ELSE lex = LexicalIdle
    /\ IF component = "ctor" THEN TRUE ELSE ctor = ConstructIdle
    /\ IF component = "vdb" THEN TRUE ELSE vdb = IndexIdle
    /\ IF component = "api" THEN TRUE ELSE api = ApiIdle
    /\ IF component = "task" THEN TRUE ELSE task = TaskIdle
    /\ IF component = "ext" THEN TRUE ELSE ext = ExtractIdle

\* the graph state and the bookkeeping before Interrogator.interrogation runs
SessionStart ==
    /\ pc = "START"
    /\ graph \in BOOLEAN
    /\ max_num_turns \in TurnBudgets
    /\ messages = <<>>
    /\ report = Absent
    /\ interrogation = Absent
    /\ conclusion = Absent
    /\ questionCall = NoCall
    /\ reportCall = NoCall
    /\ lastSearch = NoSearch
    /\ similarity = 0
    /\ answerSteps = 0
    /\ result = NotReturned

Init ==
    /\ AtRest("session")
    /\ SessionStart

\* a node raised: graph.invoke propagates, interrogation returns the error dict
Raise ==
    /\ pc' = "error"
    /\ result' = ErrorResult

\* Interrogator.interrogation up to the entry of the graph
interrogation_start ==
    /\ pc = "START"
    /\ IF graph
       THEN /\ pc' = Edge("START")
            /\ UNCHANGED result
       ELSE Raise
    /\ UNCHANGED <<graph, max_num_turns, messages, report, interrogation, conclusion,
                   questionCall, reportCall, lastSearch, similarity, answerSteps>>
    /\ UNCHANGED retrievalVars

\* node generate_question followed by the conditional edge route_interrogation
generate_question ==
    /\ pc = "generate_question"
    /\ questionCall' = [NoCall EXCEPT !.mode = PromptMode(report, max_num_turns, messages),
                                      !.remaining = remaining_questions(max_num_turns, messages)]
    /\ \/ /\ Raise
          /\ UNCHANGED <<messages, similarity>>
       \/ \E text \in QuestionTexts : \E score \in SimScores(text) :
            /\ messages' = add_messages(messages, <<AIMessage(text)>>)
            /\ similarity' = score
            /\ pc' = route_interrogation(messages', max_num_turns, score)
            /\ UNCHANGED result
    /\ UNCHANGED <<graph, max_num_turns, report, interrogation, conclusion,
                   reportCall, lastSearch, answerSteps>>
    /\ UNCHANGED retrievalVars

\* node get_answer
get_answer ==
    /\ pc = "get_answer"
    /\ \E raised \in BOOLEAN : \E text \in AnswerTexts :
         LET searchResult == Researcher_search(raised, text) IN
           /\ lastSearch' = [called |-> TRUE, failed |-> raised, result |-> searchResult]
           /\ messages' = add_messages(messages, <<AnswerMessage(searchResult)>>)
    /\ answerSteps' = answerSteps + 1
    /\ pc' = Edge("get_answer")
    /\ UNCHANGED <<graph, max_num_turns, report, interrogation, conclusion,
                   questionCall, reportCall, similarity, result>>
    /\ UNCHANGED retrievalVars

\* node refine_answer
refine_answer ==
    /\ pc = "refine_answer"
    /\ reportCall' =
         IF ReportExists(report)
         THEN [NoCall EXCEPT !.mode = "refine",
                  !.conversation = format_conversation(LastTwo(messages),
                                       "Legal Interrogator", "Legal Researcher"),
                  !.existingReport = report]
         ELSE [NoCall EXCEPT !.mode = "first_report",
                  !.conversation = format_conversation(messages,
                                       "Legal Interrogator", "Legal Researcher")]
    /\ \/ /\ Raise
          /\ UNCHANGED report
       \/ \E text \in ReportTexts :
            /\ report' = <<text>>
            /\ pc' = Edge("refine_answer")
            /\ UNCHANGED result
    /\ UNCHANGED <<graph, max_num_turns, messages, interrogation, conclusion,
                   questionCall, lastSearch, similarity, answerSteps>>
    /\ UNCHANGED retrievalVars

\* node save_interrogation
save_interrogation ==
    /\ pc = "save_interrogation"
    /\ interrogation' = <<format_conversation(messages, "Legal Interrogator", "Legal Researcher")>>
    /\ pc' = Edge("save_interrogation")
    /\ UNCHANGED <<graph, max_num_turns, messages, report, conclusion,
                   questionCall, reportCall, lastSearch, similarity, answerSteps, result>>
    /\ UNCHANGED retrievalVars

\* node write_report; graph.invoke returns the final state when END is reached
write_report ==
    /\ pc = "write_report"
    /\ IF WriteReportReads(interrogation, report)
       THEN \/ /\ Raise
               /\ UNCHANGED conclusion
            \/ \E text \in ConclusionTexts :
                 /\ conclusion' = <<text>>
                 /\ pc' = Edge("write_report")
                 /\ result' = GraphResult(messages, report, interrogation, conclusion')
       ELSE /\ Raise
            /\ UNCHANGED conclusion
    /\ UNCHANGED <<graph, max_num_turns, messages, report, interrogation,
                   questionCall, reportCall, lastSearch, similarity, answerSteps>>
    /\ UNCHANGED retrievalVars

Next ==
    \/ interrogation_start
    \/ generate_question
    \/ get_answer
    \/ refine_answer
    \/ save_interrogation
    \/ write_report

Spec == Init /\ [][Next]_vars

\* the graph executor keeps running nodes; every model and backend call returns
FairSpec == Spec /\ WF_vars(Next)

TypeOK ==
    /\ pc \in {"START", "generate_question", "get_answer", "refine_answer",
               "save_interrogation", "write_report", "END", "error"}
    /\ graph \in BOOLEAN
    /\ max_num_turns \in TurnBudgets
    /\ answerSteps \in Nat
    /\ Len(report) <= 1 /\ Len(interrogation) <= 1 /\ Len(conclusion) <= 1

----------------------------------------------------------------------------
(* One call of HybridRetriever.retrieve on a corpus snapshot *)

\* no interrogation is running
NoSession ==
    /\ pc = "START"
    /\ graph = TRUE
    /\ max_num_turns = 0
    /\ messages = <<>>
    /\ report = Absent
    /\ interrogation = Absent
    /\ conclusion = Absent
    /\ questionCall = NoCall
    /\ reportCall = NoCall
    /\ lastSearch = NoSearch
    /\ similarity = 0
    /\ answerSteps = 0
    /\ result = NotReturned

\* the call's inputs: the stored chunks, the configuration, and what the vector
\* store answers to the query
HybridInit ==
    /\ NoSession
    /\ \E corpus \in Corpora : \E config \in HybridConfigs :
       \E answer \in VectorAnswers(corpus, config.vector_top_k) :
         hyb = [HybridIdle EXCEPT !.pc = "fetch", !.corpus = corpus,
                                  !.config = config, !.vectorAnswer = answer]
    /\ AtRest("hyb")

\* the except branch of HybridRetriever.retrieve
hybrid_return_empty == [hyb EXCEPT !.pc = "done", !.result = <<>>]

\* fetch_all_documents and the construction of BM25RetrieverWrapper
hybrid_fetch ==
    /\ hyb.pc = "fetch"
    /\ \E failed \in BOOLEAN :
         LET documents == fetch_all_documents(hyb.corpus, failed) IN
           hyb' = IF BM25InitRaises(documents)
                  THEN [hybrid_return_empty EXCEPT !.fetchFailed = failed,
                                                   !.lexicalRaised = TRUE]
                  ELSE [hyb EXCEPT !.pc = "lexical", !.documents = documents,
                                   !.fetchFailed = failed]
    /\ UNCHANGED exceptHyb

\* EnsembleRetriever invokes its first retriever, BM25RetrieverWrapper.retrieve
hybrid_lexical ==
    /\ hyb.pc = "lexical"
    /\ \/ hyb' = [hybrid_return_empty EXCEPT !.lexicalRaised = TRUE]
       \/ \E raw \in [Contents -> LexScores] :
            LET scores == [i \in 1..Len(hyb.documents) |->
                              sigmoid(raw[hyb.documents[i].page_content])]
            IN  \E order \in Argsorts(scores) :
                  hyb' = [hyb EXCEPT !.pc = "semantic",
                            !.lexical = bm25_retrieve(hyb.documents, scores, order,
                                            hyb.config.bm25_top_k, Bm25Threshold)]
    /\ UNCHANGED exceptHyb

\* EnsembleRetriever invokes its second retriever, VectorDBRetriever.retrieve
hybrid_semantic ==
    /\ hyb.pc = "semantic"
    /\ \E failed \in BOOLEAN :
         hyb' = [hyb EXCEPT !.pc = "fuse", !.semanticFailed = failed,
                   !.semantic = vectordb_retrieve(hyb.corpus, hyb.vectorAnswer, failed)]
    /\ UNCHANGED exceptHyb

\* weighted_reciprocal_rank, then the cut to top_k and the retriever tag
hybrid_fuse ==
    /\ hyb.pc = "fuse"
    /\ LET all_documents ==
               weighted_reciprocal_rank(<<hyb.lexical, hyb.semantic>>,
                   <<hyb.config.bm25_weight, hyb.config.vector_weight>>)
       IN  hyb' = [hyb EXCEPT !.pc = "done", !.fused = all_documents,
                     !.result = hybrid_documents(all_documents, hyb.config.top_k)]
    /\ UNCHANGED exceptHyb

HybridNext ==
    \/ hybrid_fetch
    \/ hybrid_lexical
    \/ hybrid_semantic
    \/ hybrid_fuse

HybridSpec == HybridInit /\ [][HybridNext]_vars

\* the documents' identities, in order
Ids(docs) == [i \in 1..Len(docs) |-> docs[i].id]

\* the documents' texts, in order
Texts(docs) == [i \in 1..Len(docs) |-> docs[i].page_content]

HybridTypeOK ==
    /\ hyb.pc \in {"idle", "fetch", "lexical", "semantic", "fuse", "done"}
    /\ hyb.config \in HybridConfigs
    /\ Len(hyb.result) <= Len(hyb.corpus)

----------------------------------------------------------------------------
(* One run of the rerank node on a list of retrieved documents *)

\* state["retrievedDocuments"] as the tools left it, and the module's settings
RerankInit ==
    /\ NoSession
    /\ AtRest("rer")
    /\ \E corpus \in Corpora : \E config \in RerankConfigs :
         rer = [RerankIdle EXCEPT !.pc = "rerank", !.config = config,
                  !.retrievedDocuments =
                      [i \in 1..Len(corpus) |->
                          Document(i, corpus[i], "hybrid_retriever", 0)]]

\* node rerank
rerank ==
    /\ rer.pc = "rerank"
    /\ IF Len(rer.retrievedDocuments) = 0
       THEN rer' = [rer EXCEPT !.pc = "done", !.responseContext = <<>>]
       ELSE IF ~rer.config.use_reranker
       THEN rer' = [rer EXCEPT !.pc = "done",
                      !.responseContext = rerank_disabled(rer.retrievedDocuments, rer.config)]
       ELSE LET candidates == rerank_candidates(rer.retrievedDocuments) IN
            IF Len(candidates) = 0
            THEN rer' = [rer EXCEPT !.pc = "done", !.responseContext = <<>>]
            ELSE \/ \E scores \in [1..Len(candidates) -> RerankScores] :
                      rer' = [rer EXCEPT !.pc = "done", !.modelCalled = TRUE,
                                !.scores = scores,
                                !.responseContext =
                                    rerank_scored(candidates, scores, rer.config)]
                 \* predict / compute_score raises: nothing in the node catches it
                 \/ rer' = [rer EXCEPT !.pc = "raised", !.modelCalled = TRUE,
                               !.scoringFailed = TRUE]
    /\ UNCHANGED exceptRer

RerankNext == rerank

RerankSpec == RerankInit /\ [][RerankNext]_vars

\* the reranker is enabled and the node has returned
RerankedDone == rer.pc = "done" /\ rer.config.use_reranker

----------------------------------------------------------------------------
(* Two sessions calling Researcher.search on the shared researcher *)

ThreadInit ==
    /\ NoSession
    /\ AtRest("thr")
    /\ \E filtering \in BOOLEAN :
         thr = [ThreadIdle EXCEPT !.pc = "run", !.use_llm_filtering = filtering]

\* time passes
clock_tick ==
    /\ thr.pc = "run"
    /\ thr.clock < MaxClock
    /\ thr' = [thr EXCEPT !.clock = thr.clock + 1]
    /\ UNCHANGED exceptThr

\* Researcher.search derives the thread id from the clock
search_start(c) ==
    /\ thr.pc = "run"
    /\ thr.callers[c].pc = "start"
    /\ \E return_chunks \in BOOLEAN :
         thr' = [thr EXCEPT !.callers[c].pc = "invoke",
                            !.callers[c].thread_id = thr.clock,
                            !.callers[c].return_chunks = return_chunks]
    /\ UNCHANGED exceptThr

\* graph.invoke: load the thread's checkpoint, apply the input, save
search_invoke(c) ==
    /\ thr.callers[c].pc = "invoke"
    /\ LET channels == load_checkpoint(thr.saver, thr.callers[c].thread_id, c) IN
         thr' = [thr EXCEPT !.callers[c].pc = "extract_query",
                            !.callers[c].channels = channels,
                            !.saver = put_checkpoint(thr.saver,
                                          thr.callers[c].thread_id, channels)]
    /\ UNCHANGED exceptThr

\* node extract_query; without a tool call it raises and search returns {}
search_extract_query(c) ==
    /\ thr.callers[c].pc = "extract_query"
    /\ \/ thr' = [thr EXCEPT !.callers[c].pc = "done",
                             !.callers[c].returned = TRUE,
                             !.callers[c].result = NoChannels]
       \/ LET channels == extract_query_update(thr.callers[c].channels, c) IN
            thr' = [thr EXCEPT !.callers[c].pc = ResearcherEdge("extract_query"),
                               !.callers[c].channels = channels,
                               !.saver = put_checkpoint(thr.saver,
                                             thr.callers[c].thread_id, channels)]
    /\ UNCHANGED exceptThr

\* node tools: the documents the tool calls return are added to the channel
search_tools(c) ==
    /\ thr.callers[c].pc = "tools"
    /\ \E docs \in {<<>>, <<c>>} :
         LET channels ==
                 [thr.callers[c].channels EXCEPT !.retrievedDocuments =
                     operator_add(thr.callers[c].channels.retrievedDocuments, docs)]
         IN  thr' = [thr EXCEPT !.callers[c].pc = ResearcherEdge("tools"),
                                !.callers[c].channels = channels,
                                !.toolReturned =
                                    thr.toolReturned \cup {docs[i] : i \in 1..Len(docs)},
                                !.saver = put_checkpoint(thr.saver,
                                              thr.callers[c].thread_id, channels)]
    /\ UNCHANGED exceptThr

\* node rerank with the reranker off (the default)
search_rerank(c) ==
    /\ thr.callers[c].pc = "rerank"
    /\ LET output == FirstK(thr.callers[c].channels.retrievedDocuments, DefaultTopK)
           channels == [thr.callers[c].channels EXCEPT !.responseContext = output]
       IN  thr' = [thr EXCEPT !.callers[c].pc = ResearcherEdge("rerank"),
                              !.callers[c].channels = channels,
                              !.callers[c].rerankOutput = <<output>>,
                              !.saver = put_checkpoint(thr.saver,
                                            thr.callers[c].thread_id, channels)]
    /\ UNCHANGED exceptThr

\* node generate_response; graph.invoke returns the final state
search_generate_response(c) ==
    /\ thr.callers[c].pc = "generate_response"
    /\ LET documents == thr.callers[c].channels.responseContext
           kind == response_kind(documents, thr.callers[c].return_chunks,
                                 thr.use_llm_filtering)
           channels == IF kind = "none" THEN thr.callers[c].channels
                       ELSE [thr.callers[c].channels EXCEPT !.response = c]
       IN  thr' = [thr EXCEPT !.callers[c].pc = ResearcherEdge("generate_response"),
                              !.callers[c].channels = channels,
                              !.callers[c].synthesisInput = <<documents>>,
                              !.callers[c].responseKind = kind,
                              !.callers[c].synthesizerCalled = kind \in {"answer", "spans"},
                              !.callers[c].returned = TRUE,
                              !.callers[c].result = channels,
                              !.saver = put_checkpoint(thr.saver,
                                            thr.callers[c].thread_id, channels)]
    /\ UNCHANGED exceptThr

ThreadNext ==
    \/ clock_tick
    \/ \E c \in Callers : search_start(c)
    \/ \E c \in Callers : search_invoke(c)
    \/ \E c \in Callers : search_extract_query(c)
    \/ \E c \in Callers : search_tools(c)
    \/ \E c \in Callers : search_rerank(c)
    \/ \E c \in Callers : search_generate_response(c)

ThreadSpec == ThreadInit /\ [][ThreadNext]_vars

\* every element of the list was produced by the session
FromOnly(items, c) == \A i \in 1..Len(items) : items[i] = c

----------------------------------------------------------------------------
(* One BM25RetrieverWrapper built on a corpus snapshot and queried once *)

LexicalInit ==
    /\ NoSession
    /\ AtRest("lex")
    /\ \E corpus \in Corpora : \E config \in Bm25Configs :
         lex = [LexicalIdle EXCEPT !.pc = "init", !.corpus = corpus, !.config = config]

\* BM25RetrieverWrapper(documents): the error of BM25Okapi is re-raised
bm25_init ==
    /\ lex.pc = "init"
    /\ LET documents == fetch_all_documents(lex.corpus, FALSE) IN
         lex' = IF BM25InitRaises(documents)
                THEN [lex EXCEPT !.pc = "raised", !.raised = TRUE]
                ELSE [lex EXCEPT !.pc = "retrieve", !.documents = documents]
    /\ UNCHANGED exceptLex

\* BM25RetrieverWrapper.retrieve(query)
bm25_query ==
    /\ lex.pc = "retrieve"
    /\ \E raw \in [Contents -> LexScores] :
         LET scores == bm25_scores(lex.documents, raw, lex.config.use_sigmoid) IN
           \E order \in Argsorts(scores) :
             lex' = [lex EXCEPT !.pc = "done", !.scores = scores,
                       !.result = bm25_retrieve(lex.documents, scores, order,
                                      lex.config.top_k, lex.config.similarity_threshold)]
    /\ UNCHANGED exceptLex

LexicalNext ==
    \/ bm25_init
    \/ bm25_query

LexicalSpec == LexicalInit /\ [][LexicalNext]_vars

----------------------------------------------------------------------------
(* Researcher(config) with the hybrid retriever enabled, then one query *)

ConstructInit ==
    /\ NoSession
    /\ AtRest("ctor")
    /\ \E settings \in BackendSettings :
         ctor = [ConstructIdle EXCEPT !.pc = "vectordb", !.settings = settings]

\* VectorDBRetriever.__init__, called by HybridRetriever.__init__
vectordb_init ==
    /\ ctor.pc = "vectordb"
    /\ LET error == vectordb_init_error(ctor.settings) IN
         \* the except branch logs the error and returns: the object exists,
         \* without a vectorstore when the error came first
         ctor' = [ctor EXCEPT !.pc = "hybrid", !.error = error, !.vectordb = TRUE,
                              !.has_vectorstore = (error = "")]
    /\ UNCHANGED exceptCtor

\* the rest of HybridRetriever.__init__: the weights are read
hybrid_init ==
    /\ ctor.pc = "hybrid"
    /\ ctor' = [ctor EXCEPT !.pc = "researcher", !.hybrid = TRUE]
    /\ UNCHANGED exceptCtor

\* Researcher._setup_retrievers and _build_graph: the tool is registered
researcher_init ==
    /\ ctor.pc = "researcher"
    /\ ctor' = [ctor EXCEPT !.pc = "query", !.researcher = TRUE,
                            !.tools = {"hybrid_retriever"}]
    /\ UNCHANGED exceptCtor

\* the first HybridRetriever.retrieve: without a vectorstore attribute
\* fetch_all_documents returns [] and the BM25 construction error is turned
\* into an empty result
first_query ==
    /\ ctor.pc = "query"
    /\ \E docs \in {<<>>, <<1>>} :
         ctor' = [ctor EXCEPT !.pc = "done", !.queried = TRUE,
                    !.queryResult = IF ctor.has_vectorstore THEN docs ELSE <<>>]
    /\ UNCHANGED exceptCtor

ConstructNext ==
    \/ vectordb_init
    \/ hybrid_init
    \/ researcher_init
    \/ first_query

ConstructSpec == ConstructInit /\ [][ConstructNext]_vars

----------------------------------------------------------------------------
(* VectorDBIndexer.index running beside one HybridRetriever.retrieve *)

IndexInit ==
    /\ NoSession
    /\ AtRest("vdb")
    /\ \E store \in Corpora :
         vdb = [IndexIdle EXCEPT !.store = store, !.query = "fetch"]

\* VectorDBIndexer.index(docs): delete_all comes first
index_delete_all ==
    /\ vdb.indexer = "idle"
    /\ vdb.query # "idle"
    /\ \E docs \in IndexBatches :
         vdb' = [vdb EXCEPT !.indexer = "deleted", !.batch = docs, !.store = <<>>]
    /\ UNCHANGED exceptVdb

\* VectorDBIndexer.index(docs): add_documents / from_documents
index_add_documents ==
    /\ vdb.indexer = "deleted"
    /\ vdb' = [vdb EXCEPT !.indexer = "indexed", !.store = vdb.store \o vdb.batch]
    /\ UNCHANGED exceptVdb

\* HybridRetriever.retrieve: fetch_all_documents reads the store and the BM25
\* index is built from what it returns
retrieve_fetch ==
    /\ vdb.query = "fetch"
    /\ vdb' = IF BM25InitRaises(fetch_all_documents(vdb.store, FALSE))
              THEN [vdb EXCEPT !.query = "done", !.lexicalRaised = TRUE]
              ELSE [vdb EXCEPT !.query = "search", !.lexicalCorpus = vdb.store]
    /\ UNCHANGED exceptVdb

\* HybridRetriever.retrieve: the vector retriever searches the store
retrieve_search ==
    /\ vdb.query = "search"
    /\ vdb' = [vdb EXCEPT !.query = "done", !.semanticCorpus = vdb.store]
    /\ UNCHANGED exceptVdb

IndexNext ==
    \/ index_delete_all
    \/ index_add_documents
    \/ retrieve_fetch
    \/ retrieve_search

IndexSpec == IndexInit /\ [][IndexNext]_vars

----------------------------------------------------------------------------
(* Requests against the conversation table *)

ApiInit ==
    /\ NoSession
    /\ AtRest("api")
    /\ \E auth \in BOOLEAN : api = [ApiIdle EXCEPT !.auth = auth]

Request(op, token, thread_id, status, data) ==
    [op |-> op, token |-> token, thread_id |-> thread_id, status |-> status,
     data |-> data, before |-> api.conversations]

\* the query endpoint tracks the conversation once the answer is there: a row
\* is created for the caller unless the thread_id already has one
track_conversation(token, thread_id) ==
    LET current == get_current_user(api.auth, token)
        user_email == caller_email(api.auth, current.user)
        created == ~current.raised /\ user_email # <<>>
                   /\ api.conversations[thread_id] = NoConversation
    IN  /\ api' = [api EXCEPT
                     !.conversations = IF created
                                       THEN [@ EXCEPT ![thread_id] = user_email[1]]
                                       ELSE @,
                     !.last = Request("query", token, thread_id,
                                      IF current.raised THEN 401 ELSE 200, "")]
        /\ UNCHANGED exceptApi

\* GET /conversations/{thread_id}
get_conversation(token, thread_id) ==
    LET guard == conversation_guard(api.auth, token, api.conversations, thread_id)
    IN  /\ api' = [api EXCEPT !.last =
                     IF guard # 0 THEN Request("get", token, thread_id, guard, "")
                     ELSE Request("get", token, thread_id, 200,
                                  api.conversations[thread_id])]
        /\ UNCHANGED exceptApi

\* GET /conversations/{thread_id}/messages: past the guard the checkpointer is
\* read, which answers or raises ValueError, RuntimeError or another exception
get_conversation_messages(token, thread_id) ==
    LET guard == conversation_guard(api.auth, token, api.conversations, thread_id)
    IN  /\ \E outcome \in {200, 400, 500} :
             api' = [api EXCEPT !.last =
                       IF guard # 0 THEN Request("messages", token, thread_id, guard, "")
                       ELSE Request("messages", token, thread_id, outcome,
                                    IF outcome = 200 THEN thread_id ELSE "")]
        /\ UNCHANGED exceptApi

\* DELETE /conversations/{thread_id}
delete_conversation(token, thread_id) ==
    LET guard == conversation_guard(api.auth, token, api.conversations, thread_id)
    IN  /\ api' = IF guard # 0
                  THEN [api EXCEPT !.last = Request("delete", token, thread_id, guard, "")]
                  ELSE [api EXCEPT
                          !.conversations = [@ EXCEPT ![thread_id] = NoConversation],
                          !.last = Request("delete", token, thread_id, 200, "")]
        /\ UNCHANGED exceptApi

ApiNext ==
    \E token \in Tokens, thread_id \in ThreadIds :
        \/ track_conversation(token, thread_id)
        \/ get_conversation(token, thread_id)
        \/ get_conversation_messages(token, thread_id)
        \/ delete_conversation(token, thread_id)

ApiSpec == ApiInit /\ [][ApiNext]_vars

----------------------------------------------------------------------------
(* async_interrogation: the task body around one session per attempt *)

TaskInit ==
    /\ AtRest("task")
    /\ SessionStart
    /\ task = [TaskIdle EXCEPT !.pc = "running", !.runs = 1]

\* interrogation returned a state with report and conclusion: SUCCESS
task_success ==
    /\ task.pc = "running"
    /\ result.returned
    /\ task_reads(result.keys)
    /\ task' = [task EXCEPT !.pc = "done",
                  !.response = create_task_response("SUCCESS",
                                   result.keys \cap {"report", "conclusion"})]
    /\ UNCHANGED exceptTask

\* reading the result raised and the limit is not reached: self.retry schedules
\* the task again, and the next run builds a new Interrogator
task_retry ==
    /\ task.pc = "running"
    /\ result.returned
    /\ ~task_reads(result.keys)
    /\ may_retry(task.retries)
    /\ task' = [task EXCEPT !.retries = @ + 1, !.runs = @ + 1]
    /\ pc' = "START"
    /\ graph' \in BOOLEAN
    /\ messages' = <<>>
    /\ report' = Absent
    /\ interrogation' = Absent
    /\ conclusion' = Absent
    /\ questionCall' = NoCall
    /\ reportCall' = NoCall
    /\ lastSearch' = NoSearch
    /\ similarity' = 0
    /\ answerSteps' = 0
    /\ result' = NotReturned
    /\ UNCHANGED <<max_num_turns, hyb, rer, thr, lex, ctor, vdb, api, ext>>

\* reading the result raised on the last attempt: FAILURE is returned
task_failure ==
    /\ task.pc = "running"
    /\ result.returned
    /\ ~task_reads(result.keys)
    /\ ~may_retry(task.retries)
    /\ task' = [task EXCEPT !.pc = "done",
                  !.response = create_task_response("FAILURE", {})]
    /\ UNCHANGED exceptTask

TaskNext ==
    \/ Next
    \/ task_success
    \/ task_retry
    \/ task_failure

TaskSpec == TaskInit /\ [][TaskNext]_vars

----------------------------------------------------------------------------
(* One Researcher.search call made by get_answer *)

ExtractInit ==
    /\ NoSession
    /\ AtRest("ext")
    /\ \E query \in Queries, earlier \in 0..1 :
         ext = [ExtractIdle EXCEPT !.pc = "extract_query", !.query = query,
                  !.messages = [i \in 1..earlier |-> [tool_calls |-> 1]]]

\* Researcher.search returns, and get_answer turns the result into its message
search_returns(state, raisedIn, text) ==
    LET searchResult == Researcher_search(raisedIn # "", text) IN
      [state EXCEPT !.pc = "done", !.raisedIn = raisedIn, !.returned = TRUE,
                    !.result = searchResult,
                    !.answer = <<AnswerMessage(searchResult)>>]

\* one attempt of extract_query under the retry decorator, and the conditional
\* edge when the attempt returned
extract_attempt ==
    /\ ext.pc = "extract_query"
    /\ \E answer \in ModelAnswers :
         LET outcome == extract_outcome(ext.query, answer)
             tried == [ext EXCEPT !.attempts = @ + 1]
             response == [tool_calls |-> IF answer = "tool_call" THEN 1 ELSE 0]
             msgs == add_messages(ext.messages, <<response>>)
         IN  ext' =
               IF outcome = "returned"
               THEN [tried EXCEPT !.messages = msgs,
                                  !.path = <<"extract_query">>,
                                  !.pc = tools_condition(msgs)]
               ELSE IF is_value_error(outcome) /\ tried.attempts < stop_after_attempt
               THEN [tried EXCEPT !.retried = @ \cup {outcome}]
               ELSE search_returns(tried, "extract_query", "")
    /\ UNCHANGED exceptExt

\* nodes tools and rerank: each returns or raises
node_runs ==
    /\ ext.pc \in {"tools", "rerank"}
    /\ \E raised \in BOOLEAN :
         ext' = IF raised THEN search_returns(ext, ext.pc, "")
                ELSE [ext EXCEPT !.path = Append(@, ext.pc),
                                 !.pc = ResearcherEdge(ext.pc)]
    /\ UNCHANGED exceptExt

\* node generate_response writes the answer or raises; search returns
node_generate_response ==
    /\ ext.pc = "generate_response"
    /\ \/ ext' = search_returns(ext, "generate_response", "")
       \/ \E text \in AnswerTexts :
            ext' = search_returns([ext EXCEPT !.path = Append(@, "generate_response")],
                                  "", text)
    /\ UNCHANGED exceptExt

ExtractNext ==
    \/ extract_attempt
    \/ node_runs
    \/ node_generate_response

ExtractSpec == ExtractInit /\ [][ExtractNext]_vars

----------------------------------------------------------------------------
(* Properties *)

Terminal == {"END", "error"}

LastMessage == messages[Len(messages)]

C2_Terminates ==
    <>(pc \in Terminal /\ answerSteps <= max_num_turns)

C2_Witness ==
    /\ pc = "END"
    /\ max_num_turns >= 2
    /\ answerSteps = max_num_turns
    /\ \A i \in 1..Len(messages) :
         messages[i].type = "human" => messages[i].content = NoResponse

C4_DegradedAnswer ==
    [][(pc = "get_answer" /\ lastSearch'.failed)
       => (/\ messages' = Append(messages, HumanMessage(NoResponse))
           /\ Len(messages') \div 2 = (Len(messages) \div 2) + 1
           /\ pc' = "refine_answer"
           /\ ~result'.returned)]_vars

C4_Witness ==
    /\ pc = "get_answer"
    /\ lastSearch.failed
    /\ Len(messages) = 3
    /\ messages[2].content = NoResponse
    /\ InState(report)

C6_NeverRebuilt ==
    [][(pc = "refine_answer" /\ pc' # "error")
       => (/\ InState(report')
           /\ answerSteps > 1 => (InState(report) /\ reportCall'.mode = "refine"))]_vars

\* C7: a refine_answer step that refines an existing report is given exactly
\* the newest question and answer, two messages, and the prior report.
C7_RefineInput ==
    [][(pc = "refine_answer" /\ reportCall'.mode = "refine")
       => (/\ Len(reportCall'.conversation) = 2
           /\ Len(messages) = 2 * answerSteps
           /\ reportCall'.conversation =
                << <<"Legal Interrogator", messages[2 * answerSteps - 1].content>>,
                   <<"Legal Researcher", messages[2 * answerSteps].content>> >>
           /\ reportCall'.existingReport = report)]_vars

C7_Witness ==
    /\ reportCall.mode = "refine"
    /\ answerSteps >= 2
    /\ Len(reportCall.conversation) = 2
    /\ Len(messages) >= 4

\* C8: on entry to generate_question with remaining = max_num_turns -
\* answerSteps: a report exists and remaining = 0 gives the final prompt and
\* the router finalizes; a report exists and remaining > 0 gives the follow-up
\* prompt; the first-question prompt is used only while no report exists.
C8_PromptModes ==
    [][(pc = "generate_question" /\ pc' # "error")
       => LET remaining == max_num_turns - answerSteps IN
          /\ (InState(report) /\ remaining = 0)
               => (questionCall'.mode = "final" /\ pc' = "save_interrogation")
          /\ (InState(report) /\ remaining > 0) => questionCall'.mode = "followup"
          /\ questionCall'.mode = "first" => ~InState(report)]_vars

\* C9: with max_num_turns = 1 no second get_answer step runs, and the entry to
\* generate_question after the one answer cycle uses the final prompt and is
\* followed by save_interrogation.
C9_BudgetOne ==
    [][(max_num_turns = 1)
       => (/\ answerSteps' <= 1
           /\ (pc = "generate_question" /\ answerSteps = 1 /\ pc' # "error")
                => (questionCall'.mode = "final" /\ pc' = "save_interrogation"))]_vars

\* C10: the graph only moves along START -> generate_question,
\* generate_question -> get_answer | save_interrogation, get_answer ->
\* refine_answer, refine_answer -> generate_question, save_interrogation ->
\* write_report, write_report -> END (or leaves by an exception); a conclusion
\* is in the state only after the transcript was saved and nothing runs after it.
C10_GraphEdges ==
    [][/\ <<pc, pc'>> \in
            { <<"START", "generate_question">>,
              <<"generate_question", "get_answer">>,
              <<"generate_question", "save_interrogation">>,
              <<"get_answer", "refine_answer">>,
              <<"refine_answer", "generate_question">>,
              <<"save_interrogation", "write_report">>,
              <<"write_report", "END">> }
            \cup { <<n, "error">> : n \in {"START", "generate_question",
                                           "refine_answer", "write_report"} }
       /\ pc \notin Terminal
       /\ InState(conclusion') => (InState(interrogation) /\ pc' = "END")]_vars

C10_Witness ==
    /\ pc = "END"
    /\ InState(conclusion)
    /\ InState(interrogation)
    /\ answerSteps >= 1
    /\ Len(messages) = 2 * answerSteps + 1

\* C11: the transcript is append-only: generate_question appends exactly one
\* question, get_answer appends exactly one answer, no other step changes the
\* transcript, and messages already in it keep their place and content.
C11_AppendOnly ==
    [][/\ Len(messages') >= Len(messages)
       /\ SubSeq(messages', 1, Len(messages)) = messages
       /\ (pc = "generate_question" /\ pc' # "error")
            => (Len(messages') = Len(messages) + 1
                /\ messages'[Len(messages')].type = "ai")
       /\ pc = "get_answer"
            => (Len(messages') = Len(messages) + 1
                /\ messages'[Len(messages')].type = "human")
       /\ (pc \notin {"generate_question", "get_answer"} \/ pc' = "error")
            => messages' = messages]_vars

C11_Witness ==
    /\ Len(messages) >= 4
    /\ messages[1].type = "ai"
    /\ messages[2].type = "human"
    /\ InState(interrogation)


\* the texts of the stored chunks named A, B and C
TextA == <<"A", OriginalSpanMarker>>
TextB == <<"B", OriginalSpanMarker>>
TextC == <<"C">>

\* corpus {A, B, C}, lexical ranking [A, B, C], semantic ranking [C, B, A],
\* equal weights, fusion done
FusionScenario ==
    /\ hyb.pc = "done"
    /\ hyb.corpus = <<TextA, TextB, TextC>>
    /\ Ids(hyb.lexical) = <<1, 2, 3>>
    /\ Ids(hyb.semantic) = <<3, 2, 1>>
    /\ hyb.config.bm25_weight = hyb.config.vector_weight

\* C13 (as written): in the fusion scenario B is ranked ahead of both A and C,
\* and with top_k = 2 the result is B followed by one of A and C.
C13_BFirst ==
    FusionScenario =>
        /\ Texts(hyb.fused)[1] = TextB
        /\ hyb.config.top_k = 2 =>
             /\ Len(hyb.result) = 2
             /\ Texts(hyb.result)[1] = TextB
             /\ Texts(hyb.result)[2] \in {TextA, TextC}

\* C13 (amended): in the fusion scenario A and C, each first in one list and
\* third in the other, are ranked ahead of B, A before C; with top_k = 2 the
\* result is [A, C].
C13_BLast ==
    FusionScenario =>
        /\ Texts(hyb.fused) = <<TextA, TextC, TextB>>
        /\ hyb.config.top_k = 2 => Texts(hyb.result) = <<TextA, TextC>>

C13_Witness ==
    /\ FusionScenario
    /\ hyb.config.top_k = 2
    /\ Len(hyb.result) = 2


\* no two documents of the list have the same text
NoRepeatedText(docs) ==
    \A i, j \in 1..Len(docs) : i # j => docs[i].page_content # docs[j].page_content

\* the semantic ranker failed after the lexical ranker returned its list
SemanticFailedOnly ==
    /\ hyb.pc = "done"
    /\ hyb.semanticFailed
    /\ ~hyb.lexicalRaised

C15_SurvivorPassedThrough ==
    (hyb.pc = "done" /\ hyb.lexicalRaised /\ Len(hyb.vectorAnswer) > 0) =>
        Ids(hyb.result) = hyb.vectorAnswer


\* the weighted rank contributions of the positions from r on that hold the text
RECURSIVE ListContribution(_, _, _, _)
ListContribution(docs, weight, text, r) ==
    IF r > Len(docs) THEN 0
    ELSE (IF docs[r].page_content = text THEN weight * (Scale \div (RRF_C + r)) ELSE 0)
         + ListContribution(docs, weight, text, r + 1)

\* fused score of a text: its contributions from the lexical and the semantic
\* list, zero for a list that does not hold it
FusedScore(text) ==
    ListContribution(hyb.lexical, hyb.config.bm25_weight, text, 1)
    + ListContribution(hyb.semantic, hyb.config.vector_weight, text, 1)

\* fusion ran: neither the fetch nor the lexical ranker raised
Fused == hyb.pc = "done" /\ ~hyb.lexicalRaised

\* C17: the hybrid retriever's result holds no two documents with identical
\* content, is ordered by non-increasing fused score, and has at most top_k
\* elements.
C17_FusedSet ==
    Fused =>
        /\ NoRepeatedText(hyb.result)
        /\ \A i, j \in 1..Len(hyb.result) :
             i < j => FusedScore(hyb.result[i].page_content)
                         >= FusedScore(hyb.result[j].page_content)
        /\ Len(hyb.result) <= hyb.config.top_k

C17_Witness ==
    /\ Fused
    /\ Len(hyb.fused) = 3
    /\ Len(hyb.result) = 2
    /\ \E i \in 1..Len(hyb.lexical) : \E j \in 1..Len(hyb.semantic) :
         hyb.lexical[i].page_content = hyb.semantic[j].page_content
    /\ FusedScore(hyb.result[1].page_content) > FusedScore(hyb.result[2].page_content)


\* the ranks (1 = best) the text holds in the list
RanksIn(docs, text) == { r \in 1..Len(docs) : docs[r].page_content = text }

Min(S) == CHOOSE m \in S : \A n \in S : m <= n

\* the best rank the text holds across the lexical and the semantic list
BestRank(text) == Min(RanksIn(hyb.lexical, text) \cup RanksIn(hyb.semantic, text))

\* the text's first place in the lexical list followed by the semantic list
FirstSeen(text) == Min(RanksIn(hyb.lexical \o hyb.semantic, text))

\* C18 (as written): documents with equal fused scores are ordered by their
\* best rank across the two input lists, the smaller best rank first.
C18_TieByBestRank ==
    Fused =>
        \A i, j \in 1..Len(hyb.fused) :
            (i < j /\ FusedScore(hyb.fused[i].page_content)
                        = FusedScore(hyb.fused[j].page_content))
                => BestRank(hyb.fused[i].page_content)
                     <= BestRank(hyb.fused[j].page_content)

\* C18 (amended): documents with equal fused scores keep the order in which
\* their contents first occur in the lexical list followed by the semantic list.
C18_TieByFirstSeen ==
    Fused =>
        \A i, j \in 1..Len(hyb.fused) :
            (i < j /\ FusedScore(hyb.fused[i].page_content)
                        = FusedScore(hyb.fused[j].page_content))
                => FirstSeen(hyb.fused[i].page_content)
                     < FirstSeen(hyb.fused[j].page_content)

C18_Witness ==
    /\ Fused
    /\ \E i, j \in 1..Len(hyb.fused) :
         /\ i < j
         /\ FusedScore(hyb.fused[i].page_content) = FusedScore(hyb.fused[j].page_content)
         /\ BestRank(hyb.fused[i].page_content) > BestRank(hyb.fused[j].page_content)


\* C19: with the reranker enabled the rerank node returns at most top_k
\* documents, in non-increasing order of rerank score, and when a similarity
\* threshold is set none of them scores below it.
C19_RerankOutput ==
    RerankedDone =>
        /\ Len(rer.responseContext) <= rer.config.top_k
        /\ \A i, j \in 1..Len(rer.responseContext) :
             i < j => rer.responseContext[i].reranker_score[1]
                         >= rer.responseContext[j].reranker_score[1]
        /\ Len(rer.config.similarity_threshold) = 1 =>
             \A i \in 1..Len(rer.responseContext) :
                 rer.responseContext[i].reranker_score[1]
                     >= rer.config.similarity_threshold[1]

C19_Witness ==
    /\ RerankedDone
    /\ rer.config.similarity_threshold = <<50>>
    /\ \E i \in 1..Len(rer.scores) : rer.scores[i] < 50
    /\ Len(rer.responseContext) = 2
    /\ Len(rer.scores) = 3

\* C20: with the reranker enabled no document without the original-span marker
\* is in the output, and when no candidate carries the marker the output is
\* empty and the relevance model is not called.
C20_MarkerFilter ==
    RerankedDone =>
        /\ \A i \in 1..Len(rer.responseContext) :
             Contains(rer.responseContext[i].doc.page_content, <<OriginalSpanMarker>>)
        /\ (\A i \in 1..Len(rer.retrievedDocuments) :
               ~Contains(rer.retrievedDocuments[i].page_content, <<OriginalSpanMarker>>))
             => (rer.responseContext = <<>> /\ ~rer.modelCalled)

C20_Witness ==
    /\ RerankedDone
    /\ Len(rer.retrievedDocuments) >= 2
    /\ \A i \in 1..Len(rer.retrievedDocuments) :
         ~Contains(rer.retrievedDocuments[i].page_content, <<OriginalSpanMarker>>)
    /\ rer.responseContext = <<>>
    /\ ~rer.modelCalled


\* C12: for any interleaving of two sessions that share the researcher, also
\* when both derive the same checkpoint thread id, what a session gets back
\* (messages, retrieved documents, response context, response) holds nothing
\* produced by the other session.
C12_SessionsIndependent ==
    \A c \in Callers :
        thr.callers[c].returned =>
            /\ FromOnly(thr.callers[c].result.messages, c)
            /\ FromOnly(thr.callers[c].result.retrievedDocuments, c)
            /\ FromOnly(thr.callers[c].result.responseContext, c)
            /\ thr.callers[c].result.response \in {0, c}


\* C21: when the reranker is enabled and its scoring call fails, the rerank
\* node still returns: its output is the first top_k documents of its input,
\* un-reranked.
C21_RerankDegrades ==
    (rer.config.use_reranker /\ rer.scoringFailed) =>
        /\ rer.pc = "done"
        /\ rer.responseContext = rerank_disabled(rer.retrievedDocuments, rer.config)

\* C29: with the reranker disabled the rerank node passes its input through:
\* the output is the first top_k documents of the input in unchanged order,
\* nothing is scored or filtered by the original-span marker, and an empty
\* input gives an empty output.
C29_DisabledPassThrough ==
    (rer.pc = "done" /\ ~rer.config.use_reranker) =>
        /\ Len(rer.responseContext) =
               IF Len(rer.retrievedDocuments) <= rer.config.top_k
               THEN Len(rer.retrievedDocuments) ELSE rer.config.top_k
        /\ \A i \in 1..Len(rer.responseContext) :
             /\ rer.responseContext[i].doc = rer.retrievedDocuments[i]
             /\ rer.responseContext[i].reranker_score = <<>>
        /\ ~rer.modelCalled

C29_Witness ==
    /\ rer.pc = "done"
    /\ ~rer.config.use_reranker
    /\ Len(rer.retrievedDocuments) = 3
    /\ Len(rer.responseContext) = 2
    /\ ~Contains(rer.responseContext[1].doc.page_content, <<OriginalSpanMarker>>)


\* the lexical ranker answered the query
LexicalDone == lex.pc = "done"

\* indices of the documents scoring strictly above the threshold
AboveThreshold == { i \in 1..Len(lex.scores) : lex.scores[i] > lex.config.similarity_threshold }

\* ids of the documents in the lexical result
LexicalIds == { lex.result[i].id : i \in 1..Len(lex.result) }

\* C24: the lexical ranker returns what filter-then-truncate prescribes: only
\* documents scoring strictly above similarity_threshold, min(k, number of such
\* documents) of them, each returned once, and no document left out scores
\* higher than one returned.
C24_FilterThenTruncate ==
    LexicalDone =>
        /\ \A i \in 1..Len(lex.result) :
             /\ lex.result[i].score > lex.config.similarity_threshold
             /\ lex.result[i].score = lex.scores[lex.result[i].id]
        /\ Len(lex.result) =
               IF Cardinality(AboveThreshold) <= lex.config.top_k
               THEN Cardinality(AboveThreshold) ELSE lex.config.top_k
        /\ Cardinality(LexicalIds) = Len(lex.result)
        /\ \A i \in AboveThreshold \ LexicalIds :
             \A j \in 1..Len(lex.result) : lex.scores[i] <= lex.result[j].score

C24_Witness ==
    /\ LexicalDone
    /\ Len(lex.documents) = 3
    /\ lex.config.top_k = 2
    /\ lex.config.similarity_threshold = 50
    /\ Cardinality(AboveThreshold) = 1
    /\ Len(lex.result) = 1

\* C25 (as written): the lexical result is in descending score order and
\* documents with equal scores appear in corpus insertion order, also at the
\* top_k cut-off (of equal-scored documents the earlier inserted ones are kept).
C25_StableTies ==
    LexicalDone =>
        /\ \A i, j \in 1..Len(lex.result) :
             i < j => \/ lex.result[i].score > lex.result[j].score
                      \/ /\ lex.result[i].score = lex.result[j].score
                         /\ lex.result[i].id < lex.result[j].id
        /\ \A i \in AboveThreshold \ LexicalIds :
             \A j \in 1..Len(lex.result) :
                 lex.scores[i] = lex.result[j].score => lex.result[j].id < i

\* C25 (amended): the lexical result is in non-increasing score order; the
\* order among documents with equal scores, and which of them survive the
\* top_k cut-off, is not the insertion order.
C25_DescendingScore ==
    LexicalDone =>
        \A i, j \in 1..Len(lex.result) :
            i < j => lex.result[i].score >= lex.result[j].score

C25_Witness ==
    /\ LexicalDone
    /\ Len(lex.result) = 2
    /\ lex.result[1].score = lex.result[2].score
    /\ lex.result[1].id > lex.result[2].id
    /\ \E i \in AboveThreshold \ LexicalIds : lex.scores[i] = lex.result[2].score

\* C26: on an empty corpus snapshot the lexical ranker raises no error, at
\* construction or at query time, and returns an empty list.
C26_EmptyCorpus ==
    (Len(lex.corpus) = 0 /\ lex.pc # "init") =>
        /\ ~lex.raised
        /\ lex.pc = "done" => lex.result = <<>>


\* generate_response ran for the caller with an empty response context
EmptyContext(c) == thr.callers[c].synthesisInput = << <<>> >>

\* C22: when the response context is empty the search outcome is the explicit
\* no-relevant-results message, and no model is asked to write an answer, also
\* when return_chunks is False.
C22_EmptyContextSentinel ==
    \A c \in Callers :
        EmptyContext(c) =>
            /\ thr.callers[c].responseKind = "sentinel"
            /\ ~thr.callers[c].synthesizerCalled

\* C23: in every run of the Researcher graph the documents generate_response
\* reads are exactly what the rerank node of that run returned, and the rerank
\* node's output holds only documents returned by the retrieval tools.
C23_SynthesisFromRerank ==
    \A c \in Callers :
        Len(thr.callers[c].synthesisInput) = 1 =>
            /\ thr.callers[c].synthesisInput = thr.callers[c].rerankOutput
            /\ \A i \in 1..Len(thr.callers[c].synthesisInput[1]) :
                 thr.callers[c].synthesisInput[1][i] \in thr.toolReturned

C23_Witness ==
    \E c \in Callers :
        /\ thr.callers[c].pc = "done"
        /\ Len(thr.callers[c].synthesisInput) = 1
        /\ Len(thr.callers[c].synthesisInput[1]) >= 1
        /\ thr.callers[c].responseKind = "answer"


\* C27: when a required backend setting is missing, construction fails with an
\* error raised to the caller; no retriever or Researcher object is produced
\* that only fails at query time.
C27_FailsAtConstruction ==
    (vectordb_init_error(ctor.settings) # "" /\ ctor.pc \notin {"idle", "vectordb"}) =>
        /\ ctor.raised
        /\ ~ctor.vectordb /\ ~ctor.hybrid /\ ~ctor.researcher


\* C28: within one hybrid retrieve call the lexical index and the semantic
\* search see the same corpus state, whatever index maintenance runs beside it.
C28_SameCorpusState ==
    (vdb.query = "done" /\ ~vdb.lexicalRaised) => vdb.lexicalCorpus = vdb.semanticCorpus


\* a request of the three conversation endpoints for an existing conversation,
\* with authentication enabled
ConversationRequest ==
    /\ api.auth
    /\ api.last.op \in {"get", "messages", "delete"}
    /\ api.last.before[api.last.thread_id] # NoConversation

\* the caller of the last request presented a token with the owner's email
CallerIsOwner ==
    /\ api.last.token.valid
    /\ api.last.token.email = api.last.before[api.last.thread_id]

\* the last request neither read nor changed anything
NothingDone ==
    /\ api.last.data = ""
    /\ api.conversations = api.last.before

C31_BoundedRetries ==
    /\ task.runs <= max_retries + 1
    /\ task.runs = task.retries + 1 \/ task.pc = "idle"
    /\ task.response.status = "FAILURE" =>
         (task.runs = max_retries + 1 /\ ~task.raised /\ ~task_reads(result.keys))
    /\ task.response.status = "SUCCESS" =>
         task.response.data = {"report", "conclusion"}

\* the fourth attempt failed and the task answered FAILURE
C31_Witness ==
    /\ task.pc = "done"
    /\ task.response.status = "FAILURE"
    /\ task.runs = max_retries + 1

\* the nodes run so far follow the edges extract_query, tools, rerank,
\* generate_response
OnResearcherPath ==
    /\ Len(ext.path) <= Len(ResearcherPath)
    /\ ext.path = SubSeq(ResearcherPath, 1, Len(ext.path))
    /\ ext.pc \in {"tools", "rerank", "generate_response"} =>
         ext.pc = ResearcherPath[Len(ext.path) + 1]

\* every attempt of extract_query failed
Exhausted ==
    ext.pc = "done" /\ ext.raisedIn = "extract_query" /\ ext.attempts = stop_after_attempt

\* the exhausted search returns {} and the interrogator records the placeholder
PlaceholderRecorded ==
    /\ ext.result = EmptyDict
    /\ ext.answer = <<HumanMessage(NoResponse)>>

C33_NoConclusionWithoutCycle ==
    /\ InState(conclusion) => (answerSteps >= 1 /\ InState(report))
    /\ (pc \in Terminal /\ answerSteps = 0) =>
         /\ result = ErrorResult
         /\ ~InState(report)
         /\ ~InState(conclusion)

\* the first question ended the session and write_report found no report
C33_Witness ==
    /\ pc = "error"
    /\ answerSteps = 0
    /\ Len(messages) = 1
    /\ InState(interrogation)
    /\ result = ErrorResult

\* nodes that run once the router has finalized, and the two ends
Finalizing == {"save_interrogation", "write_report", "END", "error"}

\* C34: once a question was asked in the final-question mode the router
\* finalizes: the session never returns to generate_question or get_answer, so
\* the mode is used at most once and its message stays the last of the
\* transcript.
C34_FinalQuestionLast ==
    questionCall.mode = "final" =>
        /\ pc \in Finalizing
        /\ answerSteps = max_num_turns
        /\ Len(messages) \in {2 * max_num_turns, 2 * max_num_turns + 1}
        /\ Len(messages) = 2 * max_num_turns + 1 => LastMessage.type = "ai"

\* a session whose last question was asked in the final-question mode ended
C34_Witness ==
    /\ questionCall.mode = "final"
    /\ pc = "END"
    /\ Len(messages) = 2 * max_num_turns + 1
    /\ LastMessage.type = "ai"

\* C35: the transcript alternates question and answer; its length is even on
\* entry to generate_question and odd on entry to the router and to
\* get_answer, half its length is the number of completed Answer steps, and
\* the remaining-question count lies in 0..max_num_turns.
C35_Alternation ==
    /\ \A i \in 1..Len(messages) :
         messages[i].type = (IF i % 2 = 1 THEN "ai" ELSE "human")
    /\ pc = "generate_question" => Len(messages) % 2 = 0
    /\ pc \in {"get_answer", "save_interrogation"} => Len(messages) % 2 = 1
    /\ Len(messages) \div 2 = answerSteps
    /\ questionCall.mode # "none" => questionCall.remaining \in 0..max_num_turns

\* a second question is about to be answered
C35_Witness ==
    /\ pc = "get_answer"
    /\ Len(messages) = 3
    /\ answerSteps = 1
    /\ questionCall.remaining = max_num_turns - 1

====
